---- MODULE Spec2Model ----
(***************************************************************************)
(* Rule-repair agent of apps/web/utils/ai/assistant/fix-rules.ts:          *)
(* processUserRequest builds a per-session tool set over the session's     *)
(* rule snapshot and hands it to a step-bounded decision loop.  The tools' *)
(* execute bodies are translated from the source; the loop that drives     *)
(* them and the store functions they call live outside the source tree     *)
(* and follow the written design.                                          *)
(***************************************************************************)
EXTENDS Integers, Sequences, FiniteSets, TLC

VARIABLES
  rules,        \* session input: the rule snapshot (sequence of rules)
  matchedRule,  \* session input: <<>> (null) or <<rule>>
  categories,   \* session input: <<>> (null) or <<list of names>>
  tools,        \* tool names offered to the decision-maker
  pc,           \* Building | Deliberating | Executing | Done | Failed
  steps,        \* decision-maker exchanges made so far
  executed,     \* tool executions run so far
  call,         \* the tool call chosen in the current step
  result,       \* the tool result of the current step
  storeOp,      \* the store write issued by the current step's tool
  storeRules,   \* store: rule id -> persisted rule
  groupItems,   \* store: group id -> sequence of items
  nextItemId,   \* store: id given to the next appended group item
  prompt,       \* the prompt built from the session inputs (tokens)
  toolCalls,    \* history: the tool calls of the steps so far, recorded by
                \* SpecAudit only (Spec leaves the history out)
  sid,          \* the invocation of processUserRequest that is running
  other,        \* the locals of a second invocation, suspended at an await
                \* (SpecPair only)
  inputs        \* history: the arguments each invocation was called with
                \* (SpecPair only)

vars == <<rules, matchedRule, categories, tools, pc, steps, executed, call,
          result, storeOp, storeRules, groupItems, nextItemId, prompt,
          toolCalls, sid, other, inputs>>

session == <<rules, matchedRule, categories>>
peer == <<sid, other, inputs>>
store == <<storeRules, groupItems, nextItemId>>

----------------------------------------------------------------------------
(* Bounds of the model *)

\* number of distinct replacement conditions the decision-maker may propose
NumConds == 1
\* cap on the number of items a group may hold
MaxItems == 2
\* cap on the number of rules in the store
MaxRules == 3

\* variant: one step more
maxStepsPlusOne == 5 + 1

\* maxSteps handed to the decision loop
maxSteps == 5

----------------------------------------------------------------------------
(* Values *)

Some(x) == <<x>>
None == <<>>

Success == [success |-> TRUE]
Error(msg) == [error |-> msg]
NoResult == [pending |-> TRUE]
\* an execute step that throws instead of returning
Thrown == [thrown |-> TRUE]
IsError(r) == "error" \in DOMAIN r
IsSuccess(r) == "success" \in DOMAIN r

NoCall == [tool |-> "none"]
\* no second invocation
NoSession == [pc |-> "none"]
NoOp == [op |-> "none"]

GroupIds == {1, 2}
GroupName(g) == IF g = 1 THEN "Receipts" ELSE "Newsletters"

Item(id, type, value) == [id |-> id, type |-> type, value |-> value]
Group(g, items) == [id |-> g, name |-> GroupName(g), items |-> items]

\* a rule with every field the serializer reads
FullRule(id, name, actions, group, op, ins, from, to, subject, body, ft, fs) ==
  [id |-> id, name |-> name, actions |-> actions, group |-> group,
   conditionalOperator |-> op, instructions |-> ins,
   from |-> from, to |-> to, subject |-> subject, body |-> body,
   categoryFilterType |-> ft, categoryFilters |-> fs]

\* a rule as the session sees it (RuleWithRelations)
Rule(id, name, actions, group) ==
  FullRule(id, name, actions, group, "AND", None, Some("billing@"), None,
           None, None, None, <<>>)

InitialItems(g) ==
  IF g = 1 THEN {<<>>, <<Item(1, "SUBJECT", "Invoice")>>}
           ELSE {<<Item(2, "FROM", "news@")>>}

Values == {"Invoice", "thanks"}
AddValues == {"thanks"}
ItemTypes == {"from", "subject"}
RuleNameArgs ==
  {None, Some(""), Some("Newsletter"), Some("Receipt"), Some("Digest")}
GroupNameArgs == {None, Some("Receipts"), Some("Newsletters")}
Conditions == 1..NumConds

CategoryArgs == {"News", "none", "Spam"}
CreateNames == {"Receipt", "Digest"}

----------------------------------------------------------------------------
(* Session inputs *)

\* the rule sets a session may be started with; rule 1 is "Receipt", with or
\* without the group "Receipts", rule 2 is "Newsletter" with "Newsletters"
RuleSets ==
  {<<>>}
  \cup {<<Rule(1, "Receipt", <<"LABEL">>, None)>>}
  \cup {<<Rule(1, "Receipt", <<"LABEL">>, Some(Group(1, items)))>> :
          items \in InitialItems(1)}
  \cup {<<Rule(1, "Receipt", <<"LABEL">>, None),
          Rule(2, "Newsletter", <<"ARCHIVE", "LABEL">>, Some(Group(2, items)))>> :
          items \in InitialItems(2)}
  \cup {<<Rule(1, "Receipt", <<"LABEL">>, Some(Group(1, i1))),
          Rule(2, "Newsletter", <<"ARCHIVE", "LABEL">>, Some(Group(2, i2)))>> :
          i1 \in InitialItems(1), i2 \in InitialItems(2)}

CategoryLists == {None, Some(<<"News">>)}

Range(seq) == {seq[i] : i \in 1..Len(seq)}

\* the store as the caller read it when it built the session's rule set
StoredRule(r) ==
  [name |-> r.name, condition |-> 0, actions |-> r.actions,
   groupId |-> IF r.group = None THEN None ELSE Some(r.group[1].id),
   categoryIds |-> IF r.id = 2 THEN {1} ELSE {}]

StoredRules(rs) ==
  [id \in {r.id : r \in Range(rs)} |->
     StoredRule(CHOOSE r \in Range(rs) : r.id = id)]

StoredItems(rs) ==
  [g \in GroupIds |->
     IF \E r \in Range(rs) : r.group # None /\ r.group[1].id = g
       THEN (CHOOSE r \in Range(rs) : r.group # None /\ r.group[1].id = g).group[1].items
       ELSE CHOOSE items \in InitialItems(g) : Len(items) > 0]

----------------------------------------------------------------------------
(* Helpers of fix-rules.ts *)

\* JavaScript truthiness of an optional string: undefined and "" are falsy
Truthy(opt) == opt # None /\ opt[1] # ""

\* Array.prototype.find: the first element satisfying P, or undefined
Find(seq, P(_)) ==
  LET I == {i \in 1..Len(seq) : P(seq[i])}
  IN  IF I = {} THEN None
      ELSE Some(seq[CHOOSE i \in I : \A j \in I : i <= j])

\* variant: both branches return FROM
getGroupItemTypeFrom(type) ==
  IF type = "from" THEN Some("FROM")
  ELSE IF type = "subject" THEN Some("FROM")
  ELSE None

getGroupItemType(type) ==
  IF type = "from" THEN Some("FROM")
  ELSE IF type = "subject" THEN Some("SUBJECT")
  ELSE None

\* r.group?.name
GroupNameOf(r) == IF r.group = None THEN None ELSE Some(r.group[1].name)

----------------------------------------------------------------------------
(* ruleToXML: the serialized rule as the sequence of its tags and values;   *)
(* the white space between them is left out                                *)

Open(tag) == [open |-> tag]
Close(tag) == [close |-> tag]
Text(value) == [text |-> value]

\* `<tag>${value}</tag>`
Element(tag, value) == <<Open(tag), Text(value), Close(tag)>>

\* value ? `<tag>${value}</tag>` : ""
OptionalElement(tag, opt) ==
  IF Truthy(opt) THEN Element(tag, opt[1]) ELSE <<>>

\* seq.map(f) with the pieces laid end to end
Flatten(seq) ==
  LET F[i \in 0..Len(seq)] == IF i = 0 THEN <<>> ELSE F[i - 1] \o seq[i]
  IN  F[Len(seq)]

\* truthiness of an array: every array is truthy, the empty one too
ArrayTruthy(items) == TRUE

\* variant: body is not looked at
hasStaticConditionsNoBody(rule) ==
  Truthy(rule.from) \/ Truthy(rule.to) \/ Truthy(rule.subject)

hasStaticConditions(rule) ==
  Truthy(rule.from) \/ Truthy(rule.to) \/ Truthy(rule.subject) \/ Truthy(rule.body)

hasCategoryConditions(rule) == Len(rule.categoryFilters) > 0

GroupItemsXML(items) ==
  IF ArrayTruthy(items)
    THEN Flatten([i \in 1..Len(items) |->
           <<Open("item")>> \o Element("type", items[i].type)
             \o Element("value", items[i].value) \o <<Close("item")>>])
    ELSE <<Text("No group items")>>

ruleToXML(rule) ==
  <<Open("rule")>>
  \o Element("rule_name", rule.name)
  \o <<Open("conditions")>>
  \o Element("conditional_operator", rule.conditionalOperator)
  \o OptionalElement("ai_instructions", rule.instructions)
  \o (IF hasStaticConditions(rule)
        THEN <<Open("static_conditions")>>
             \o OptionalElement("from", rule.from)
             \o OptionalElement("to", rule.to)
             \o OptionalElement("subject", rule.subject)
             \o OptionalElement("body", rule.body)
             \o <<Close("static_conditions")>>
        ELSE <<>>)
  \o (IF rule.group # None
        THEN <<Open("group_condition")>>
             \o Element("group", rule.group[1].name)
             \o <<Open("group_items")>>
             \o GroupItemsXML(rule.group[1].items)
             \o <<Close("group_items"), Close("group_condition")>>
        ELSE <<>>)
  \o (IF hasCategoryConditions(rule)
        THEN <<Open("category_conditions")>>
             \o OptionalElement("filter_type", rule.categoryFilterType)
             \o Flatten([i \in 1..Len(rule.categoryFilters) |->
                   Element("category", rule.categoryFilters[i].name)])
             \o <<Close("category_conditions")>>
        ELSE <<>>)
  \o <<Close("conditions"), Close("rule")>>

\* the prompt of processUserRequest: the matched rule, the user's rules when
\* no rule matched, and the sender's category when there are categories; the
\* e-mail sections hold no rule state and are left out
Prompt ==
  <<Open("matched_rule")>>
  \o (IF matchedRule # None THEN ruleToXML(matchedRule[1])
                             ELSE <<Text("No rule matched")>>)
  \o <<Close("matched_rule")>>
  \o (IF matchedRule = None
        THEN <<Open("user_rules")>>
             \o Flatten([i \in 1..Len(rules) |-> ruleToXML(rules[i])])
             \o <<Close("user_rules")>>
        ELSE <<>>)
  \o (IF categories # None /\ Len(categories[1]) > 0
        THEN <<Open("sender_category"), Close("sender_category")>>
        ELSE <<>>)

----------------------------------------------------------------------------
(* The tool registry built by processUserRequest *)

\* variant: remove_from_group is offered whenever a rule matched
ToolsForAnyMatch ==
  {"edit_rule", "create_rule", "add_to_group", "reply"}
  \cup (IF categories # None THEN {"change_sender_category"} ELSE {})
  \cup (IF matchedRule # None THEN {"remove_from_group"} ELSE {})

\* the tools object handed to chatCompletionTools
Tools ==
  {"edit_rule", "create_rule", "add_to_group", "reply"}
  \cup (IF categories # None THEN {"change_sender_category"} ELSE {})
  \cup (IF matchedRule # None /\ matchedRule[1].group # None
          THEN {"remove_from_group"} ELSE {})

\* variant: reply is given an execute function like the other tools
HasExecuteAll(t) == TRUE

\* reply is declared without an execute function
HasExecute(t) == t # "reply"

\* variant: the enums are plain strings
ValidArgsAnyString(c) == TRUE

\* the zod parameter schemas: the enums are the only constraints a
\* well-typed call can violate
ValidArgs(c) ==
  CASE c.tool \in {"add_to_group", "remove_from_group"} ->
         c.type \in {"from", "subject"}
    [] c.tool = "change_sender_category" ->
         categories # None /\ c.category \in Range(categories[1]) \cup {"none"}
    [] OTHER -> TRUE

\* variant: edit_rule throws when its rule does not resolve
RuleNotFoundThrows == Thrown

\* the payloads the execute steps return on a domain-level failure
RuleNotFound == Error("Rule not found")
GroupNotFound == Error("Group not found")
InvalidGroupItemType == Error("Invalid group item type")
GroupItemNotFound == Error("Group item not found")

\* variant: a given name is looked up among the rules of the store
EditRuleTargetInStore(ruleName) ==
  IF Truthy(ruleName)
    THEN LET I == {i \in DOMAIN storeRules : storeRules[i].name = ruleName[1]}
         IN  IF I = {} THEN None
             ELSE LET i == CHOOSE j \in I : \A k \in I : k <= j
                  IN  Some(Rule(i, storeRules[i].name, storeRules[i].actions,
                                None))
    ELSE matchedRule

\* variant: an unset ruleName falls back to the first rule of the set
EditRuleTargetFirst(ruleName) ==
  IF Truthy(ruleName)
    THEN Find(rules, LAMBDA r : r.name = ruleName[1])
    ELSE IF rules = <<>> THEN None ELSE Some(rules[1])

\* variant: a name that matches no rule falls back to the matched rule
EditRuleTargetOrMatched(ruleName) ==
  LET named == IF ruleName = None THEN None
               ELSE Find(rules, LAMBDA r : r.name = ruleName[1])
  IN  IF named # None THEN named ELSE matchedRule

\* edit_rule: ruleName ? rules.find((r) => r.name === ruleName) : matchedRule
EditRuleTarget(ruleName) ==
  IF Truthy(ruleName)
    THEN Find(rules, LAMBDA r : r.name = ruleName[1])
    ELSE matchedRule

\* variant: the rule's actions are not carried over
EditRuleUpdateNoActions(rule, condition) ==
  [id |-> rule.id,
   data |-> [name |-> rule.name, condition |-> condition, actions |-> <<>>],
   groupId |-> None,
   categoryIds |-> None]

\* variant: an empty category list is passed instead of null
EditRuleUpdateEmptyCategories(rule, condition) ==
  [id |-> rule.id,
   data |-> [name |-> rule.name, condition |-> condition, actions |-> rule.actions],
   groupId |-> None,
   categoryIds |-> Some({})]

\* edit_rule: the arguments of the safeUpdateRule call
EditRuleUpdate(rule, condition) ==
  [id |-> rule.id,
   data |-> [name |-> rule.name, condition |-> condition, actions |-> rule.actions],
   groupId |-> None,
   categoryIds |-> None]

\* variant: an unset groupName falls back to the matched rule's group
AddToGroupIdOrMatched(groupName) ==
  IF groupName = None
    THEN IF matchedRule = None \/ matchedRule[1].group = None THEN None
         ELSE Some(matchedRule[1].group[1].id)
    ELSE LET found == Find(rules, LAMBDA r : GroupNameOf(r) = groupName)
         IN  IF found = None \/ found[1].group = None THEN None
             ELSE Some(found[1].group[1].id)

\* add_to_group: rules.find((r) => r.group?.name === groupName)?.group?.id
AddToGroupId(groupName) ==
  LET found == Find(rules, LAMBDA r : GroupNameOf(r) = groupName)
  IN  IF found = None \/ found[1].group = None THEN None
      ELSE Some(found[1].group[1].id)

\* variant: the item is looked up among the items the store holds now, in
\* any group
RemoveFromGroupItemInStore(groupItemType, value) ==
  Find(groupItems[1] \o groupItems[2],
       LAMBDA item : item.type = groupItemType /\ item.value = value)

\* remove_from_group: matchedRule?.group?.items?.find(type and value equal)
RemoveFromGroupItem(groupItemType, value) ==
  IF matchedRule = None \/ matchedRule[1].group = None THEN None
  ELSE Find(matchedRule[1].group[1].items,
            LAMBDA item : item.type = groupItemType /\ item.value = value)

----------------------------------------------------------------------------
(* The store, behind safeUpdateRule, safeCreateRule, addGroupItem and       *)
(* deleteGroupItem: single-record writes                                   *)

\* replace a rule's name, condition and actions; a null linkage argument
\* leaves the linkage as it is
safeUpdateRule(rs, u) ==
  IF u.id \notin DOMAIN rs THEN rs
  ELSE [rs EXCEPT ![u.id] =
          [name |-> u.data.name,
           condition |-> u.data.condition,
           actions |-> u.data.actions,
           groupId |-> IF u.groupId = None THEN @.groupId ELSE u.groupId,
           categoryIds |-> IF u.categoryIds = None THEN @.categoryIds
                           ELSE u.categoryIds[1]]]

NextRuleId(rs) == 1 + Cardinality(DOMAIN rs \cup {1, 2})

\* insert a rule under a fresh id
safeCreateRule(rs, data) ==
  LET id == NextRuleId(rs)
  IN  [i \in DOMAIN rs \cup {id} |->
         IF i = id
           THEN [name |-> data.name, condition |-> data.condition,
                 actions |-> data.actions, groupId |-> None, categoryIds |-> {}]
           ELSE rs[i]]

\* append one item to a group
addGroupItem(gi, groupId, type, value, id) ==
  [gi EXCEPT ![groupId] = Append(@, Item(id, type, value))]

SelectSeq2(seq, P(_)) ==
  LET F[i \in 0..Len(seq)] ==
        IF i = 0 THEN <<>>
        ELSE IF P(seq[i]) THEN Append(F[i - 1], seq[i]) ELSE F[i - 1]
  IN  F[Len(seq)]

\* delete the item with the given id, wherever it is
deleteGroupItem(gi, id) ==
  [g \in DOMAIN gi |-> SelectSeq2(gi[g], LAMBDA item : item.id # id)]

----------------------------------------------------------------------------
(* The session *)

Init ==
  /\ rules \in RuleSets
  /\ matchedRule \in {None} \cup {Some(r) : r \in Range(rules)}
  /\ categories \in CategoryLists
  /\ tools = {}
  /\ pc = "Building"
  /\ steps = 0
  /\ executed = 0
  /\ call = NoCall
  /\ result = NoResult
  /\ storeOp = NoOp
  /\ storeRules = StoredRules(rules)
  /\ groupItems = StoredItems(rules)
  /\ nextItemId = 3
  /\ prompt = <<>>
  /\ toolCalls = <<>>
  /\ sid = 1
  /\ other = NoSession
  /\ inputs = <<>>

\* processUserRequest up to the chatCompletionTools call: the prompt and
\* the tool set are built once from the session inputs
Build ==
  /\ pc = "Building"
  /\ prompt' = Prompt
  /\ tools' = Tools
  /\ pc' = "Deliberating"
  /\ UNCHANGED <<session, peer, steps, executed, call, result, storeOp,
                 store, toolCalls>>

\* the calls the decision-maker can make of a tool
CallsOf(t) ==
  CASE t = "edit_rule" ->
         {[tool |-> t, ruleName |-> n, condition |-> c] :
            n \in RuleNameArgs, c \in Conditions}
    [] t = "create_rule" ->
         {[tool |-> t, name |-> n, condition |-> c, actions |-> <<"ARCHIVE">>] :
            n \in CreateNames, c \in Conditions}
    [] t = "change_sender_category" ->
         {[tool |-> t, sender |-> "news@", category |-> c] : c \in CategoryArgs}
    [] t = "add_to_group" ->
         {[tool |-> t, groupName |-> g, type |-> ty, value |-> v] :
            g \in GroupNameArgs, ty \in ItemTypes, v \in AddValues}
         \cup {[tool |-> t, groupName |-> Some("Receipts"), type |-> "to",
                value |-> "thanks"]}
    [] t = "remove_from_group" ->
         {[tool |-> t, type |-> ty, value |-> v] :
            ty \in ItemTypes, v \in Values}
         \cup {[tool |-> t, type |-> "to", value |-> "Invoice"]}
    [] t = "reply" -> {[tool |-> t, content |-> "done"]}

\* the model's caps on the store's growth
WithinBounds(c) ==
  /\ c.tool = "create_rule" => Cardinality(DOMAIN storeRules) < MaxRules
  /\ c.tool = "add_to_group" =>
       IF AddToGroupId(c.groupName) = None THEN TRUE
       ELSE Len(groupItems[AddToGroupId(c.groupName)[1]]) < MaxItems

\* variant: the loop asks again whatever the number of steps
AfterStepNoBudget == "Deliberating"

\* the loop asks the decision-maker again unless the budget is used up
AfterStep == IF steps < maxSteps THEN "Deliberating" ELSE "Done"

\* the decision-maker selects the call c
Selects(c) ==
  /\ WithinBounds(c)
  /\ call' = c
  /\ pc' = IF HasExecute(c.tool) THEN "Executing" ELSE "Done"

\* one exchange with the decision-maker: it selects one of the offered
\* tools; a tool without an execute step ends the session
Decide ==
  /\ pc = "Deliberating"
  /\ steps < maxSteps
  /\ \E t \in tools : \E c \in CallsOf(t) : Selects(c)
  /\ steps' = steps + 1
  /\ result' = NoResult
  /\ storeOp' = NoOp
  /\ UNCHANGED <<session, peer, tools, executed, store, prompt, toolCalls>>

\* variant: the rejected call is caught and the decision-maker asked again
OnTransportErrorRetry == "Deliberating"

\* the chatCompletionTools call is awaited without a catch: its rejection
\* is the rejection of processUserRequest
OnTransportError == "Failed"

\* the decision-maker call itself fails
TransportFailure ==
  /\ pc = "Deliberating"
  /\ steps < maxSteps
  /\ pc' = OnTransportError
  /\ call' = NoCall
  /\ result' = NoResult
  /\ storeOp' = NoOp
  /\ UNCHANGED <<session, peer, tools, steps, executed, store, prompt,
                 toolCalls>>

\* arguments that violate the tool's schema are rejected before execute
RejectInvalid ==
  /\ pc = "Executing"
  /\ ~ValidArgs(call)
  /\ result' = Error("Invalid arguments")
  /\ storeOp' = NoOp
  /\ pc' = AfterStep
  /\ UNCHANGED <<session, peer, tools, steps, executed, call, store, prompt,
                 toolCalls>>

\* the execute step returns: its result goes back to the decision-maker;
\* an execute step that throws fails the session
Finish(res, op) ==
  /\ result' = res
  /\ storeOp' = op
  /\ executed' = executed + 1
  /\ pc' = IF res = Thrown THEN "Failed" ELSE AfterStep
  /\ UNCHANGED <<session, peer, tools, steps, call, prompt, toolCalls>>

edit_rule ==
  /\ pc = "Executing"
  /\ call.tool = "edit_rule"
  /\ ValidArgs(call)
  /\ LET rule == EditRuleTarget(call.ruleName)
     IN  IF rule = None
           THEN /\ Finish(RuleNotFound, NoOp)
                /\ UNCHANGED store
           ELSE LET u == EditRuleUpdate(rule[1], call.condition)
                IN  /\ storeRules' = safeUpdateRule(storeRules, u)
                    /\ Finish(Success, [op |-> "updateRule", id |-> u.id])
                    /\ UNCHANGED <<groupItems, nextItemId>>

create_rule ==
  /\ pc = "Executing"
  /\ call.tool = "create_rule"
  /\ ValidArgs(call)
  /\ storeRules' = safeCreateRule(storeRules,
                     [name |-> call.name, condition |-> call.condition,
                      actions |-> call.actions])
  /\ Finish(Success, [op |-> "createRule", id |-> NextRuleId(storeRules)])
  /\ UNCHANGED <<groupItems, nextItemId>>

\* variant: the category is written to the rules as a filter
change_sender_category_filters ==
  /\ pc = "Executing"
  /\ call.tool = "change_sender_category"
  /\ ValidArgs(call)
  /\ storeRules' = [i \in DOMAIN storeRules |->
                      [storeRules[i] EXCEPT !.categoryIds = {1}]]
  /\ Finish(Success, [op |-> "updateRule", id |-> 0])
  /\ UNCHANGED <<groupItems, nextItemId>>

change_sender_category ==
  /\ pc = "Executing"
  /\ call.tool = "change_sender_category"
  /\ ValidArgs(call)
  /\ Finish(Success, NoOp)
  /\ UNCHANGED store

add_to_group ==
  /\ pc = "Executing"
  /\ call.tool = "add_to_group"
  /\ ValidArgs(call)
  /\ LET groupId == AddToGroupId(call.groupName)
         groupItemType == getGroupItemType(call.type)
     IN  IF groupId = None
           THEN /\ Finish(GroupNotFound, NoOp)
                /\ UNCHANGED store
         ELSE IF groupItemType = None
           THEN /\ Finish(InvalidGroupItemType, NoOp)
                /\ UNCHANGED store
         ELSE /\ groupItems' = addGroupItem(groupItems, groupId[1],
                                 groupItemType[1], call.value, nextItemId)
              /\ nextItemId' = nextItemId + 1
              /\ Finish(Success, [op |-> "addGroupItem", id |-> groupId[1]])
              /\ UNCHANGED storeRules

\* variant: the matched rule's group is deleted, not the item
remove_from_group_deletes_group ==
  /\ pc = "Executing"
  /\ call.tool = "remove_from_group"
  /\ ValidArgs(call)
  /\ groupItems' = [g \in DOMAIN groupItems \ {matchedRule[1].group[1].id} |->
                      groupItems[g]]
  /\ Finish(Success, [op |-> "deleteGroup", id |-> matchedRule[1].group[1].id])
  /\ UNCHANGED <<storeRules, nextItemId>>

remove_from_group ==
  /\ pc = "Executing"
  /\ call.tool = "remove_from_group"
  /\ ValidArgs(call)
  /\ LET groupItemType == getGroupItemType(call.type)
     IN  IF groupItemType = None
           THEN /\ Finish(InvalidGroupItemType, NoOp)
                /\ UNCHANGED store
         ELSE LET groupItem == RemoveFromGroupItem(groupItemType[1], call.value)
              IN  IF groupItem = None
                    THEN /\ Finish(GroupItemNotFound, NoOp)
                         /\ UNCHANGED store
                    ELSE /\ groupItems' = deleteGroupItem(groupItems, groupItem[1].id)
                         /\ Finish(Success, [op |-> "deleteGroupItem",
                                             id |-> groupItem[1].id])
                         /\ UNCHANGED <<storeRules, nextItemId>>

Next ==
  \/ Build
  \/ Decide
  \/ TransportFailure
  \/ RejectInvalid
  \/ edit_rule
  \/ create_rule
  \/ change_sender_category
  \/ add_to_group
  \/ remove_from_group

Spec == Init /\ [][Next]_vars

----------------------------------------------------------------------------
(* The serializer on its own: sessions over rules that cover every shape   *)
(* ruleToXML distinguishes, taken as far as the built prompt               *)

OptionalStrings(v) == {None, Some(""), Some(v)}

XmlItemLists ==
  {<<>>,
   <<Item(1, "SUBJECT", "Invoice")>>,
   <<Item(1, "SUBJECT", "Invoice"), Item(2, "FROM", "news@")>>,
   <<Item(2, "FROM", "news@"), Item(1, "SUBJECT", "Invoice")>>}

XmlRules ==
  {FullRule(1, "Receipt", <<"LABEL">>, g, op, ins, f, t, su, b, cf[1], cf[2]) :
     g \in {None} \cup {Some(Group(1, items)) : items \in XmlItemLists},
     op \in {"AND", "OR"},
     ins \in {None, Some("receipts and invoices")},
     f \in OptionalStrings("billing@"),
     t \in OptionalStrings("me@"),
     su \in OptionalStrings("Invoice"),
     b \in OptionalStrings("total"),
     cf \in {<<None, <<>>>>, <<Some("INCLUDE"), <<[name |-> "News"]>>>>}}

InitXML ==
  /\ \E r \in XmlRules : rules = <<r>> /\ matchedRule = Some(r)
  /\ categories = None
  /\ tools = {}
  /\ pc = "Building"
  /\ steps = 0
  /\ executed = 0
  /\ call = NoCall
  /\ result = NoResult
  /\ storeOp = NoOp
  /\ storeRules = StoredRules(rules)
  /\ groupItems = StoredItems(rules)
  /\ nextItemId = 3
  /\ prompt = <<>>
  /\ toolCalls = <<>>
  /\ sid = 1
  /\ other = NoSession
  /\ inputs = <<>>

SpecXML == InitXML /\ [][Build]_vars

----------------------------------------------------------------------------
(* The session with its tool-call log: processUserRequest returns the      *)
(* loop's result, whose steps carry the tool calls of the session          *)

\* the sessions whose log is followed: both rules have a group, a rule is
\* matched and categories are configured, so every tool is offered
AuditRules ==
  <<Rule(1, "Receipt", <<"LABEL">>,
         Some(Group(1, <<Item(1, "SUBJECT", "Invoice")>>))),
    Rule(2, "Newsletter", <<"ARCHIVE", "LABEL">>,
         Some(Group(2, <<Item(2, "FROM", "news@")>>)))>>

InitAudit ==
  /\ rules = AuditRules
  /\ matchedRule \in {Some(r) : r \in Range(rules)}
  /\ categories = Some(<<"News">>)
  /\ tools = {}
  /\ pc = "Building"
  /\ steps = 0
  /\ executed = 0
  /\ call = NoCall
  /\ result = NoResult
  /\ storeOp = NoOp
  /\ storeRules = StoredRules(rules)
  /\ groupItems = StoredItems(rules)
  /\ nextItemId = 3
  /\ prompt = <<>>
  /\ toolCalls = <<>>
  /\ sid = 1
  /\ other = NoSession
  /\ inputs = <<>>

\* the calls followed in the log: one of each tool, and one that breaks
\* its schema
LoggedCallsOf(t) ==
  CASE t = "edit_rule" ->
         {[tool |-> t, ruleName |-> None, condition |-> 1]}
    [] t = "create_rule" ->
         {[tool |-> t, name |-> "Digest", condition |-> 1,
           actions |-> <<"ARCHIVE">>]}
    [] t = "change_sender_category" ->
         {[tool |-> t, sender |-> "news@", category |-> c] :
            c \in {"News", "Spam"}}
    [] t = "add_to_group" ->
         {[tool |-> t, groupName |-> Some("Receipts"), type |-> "subject",
           value |-> "thanks"]}
    [] t = "remove_from_group" ->
         {[tool |-> t, type |-> "subject", value |-> "Invoice"]}
    [] t = "reply" -> {[tool |-> t, content |-> "done"]}

\* variant: only the last step's call is returned
ToolCallLogLastStep ==
  IF toolCalls = <<>> THEN <<>> ELSE <<toolCalls[Len(toolCalls)]>>

\* result.steps.flatMap((step) => step.toolCalls)
ToolCallLog == toolCalls

\* Decide, with the step's tool call kept in result.steps
DecideLogged ==
  /\ pc = "Deliberating"
  /\ steps < maxSteps
  /\ \E t \in tools : \E c \in LoggedCallsOf(t) : Selects(c)
  /\ toolCalls' = Append(toolCalls, call')
  /\ steps' = steps + 1
  /\ result' = NoResult
  /\ storeOp' = NoOp
  /\ UNCHANGED <<session, peer, tools, executed, store, prompt>>

NextAudit ==
  \/ Build
  \/ DecideLogged
  \/ TransportFailure
  \/ RejectInvalid
  \/ edit_rule
  \/ create_rule
  \/ change_sender_category
  \/ add_to_group
  \/ remove_from_group

SpecAudit == InitAudit /\ [][NextAudit]_vars

\* the same sessions under every call of Decide, without the log.  Every
\* awaited call (the decision-maker's, the store's) returns or fails: a
\* session that can take a step eventually takes one
SpecLive == InitAudit /\ [][Next]_vars /\ WF_vars(Next)

----------------------------------------------------------------------------
(* Two invocations of processUserRequest for the same user, interleaved at *)
(* their awaits.  Each has its own arguments and locals; the store is the  *)
(* one both write to                                                       *)

\* cap on the steps each of the two invocations takes
MaxPairSteps == 2

\* the arguments of an invocation
Context(rs, m, cs) == [rules |-> rs, matchedRule |-> m, categories |-> cs]

\* the arguments the two invocations may be called with: both rules with
\* the first matched and categories configured, or a rule set read before
\* the first rule existed, with the second matched and no categories
PairContexts ==
  {Context(AuditRules, Some(AuditRules[1]), Some(<<"News">>)),
   Context(<<AuditRules[2]>>, Some(AuditRules[2]), None)}

\* the locals of the running invocation
Locals ==
  [rules |-> rules, matchedRule |-> matchedRule, categories |-> categories,
   tools |-> tools, pc |-> pc, steps |-> steps, executed |-> executed,
   call |-> call, result |-> result, storeOp |-> storeOp, prompt |-> prompt]

\* the locals of an invocation that has not run yet
Fresh(ctx) ==
  [rules |-> ctx.rules, matchedRule |-> ctx.matchedRule,
   categories |-> ctx.categories, tools |-> {}, pc |-> "Building",
   steps |-> 0, executed |-> 0, call |-> NoCall, result |-> NoResult,
   storeOp |-> NoOp, prompt |-> <<>>]

InitPair ==
  /\ inputs \in [{1, 2} -> PairContexts]
  /\ sid = 1
  /\ other = Fresh(inputs[2])
  /\ rules = inputs[1].rules
  /\ matchedRule = inputs[1].matchedRule
  /\ categories = inputs[1].categories
  /\ tools = {}
  /\ pc = "Building"
  /\ steps = 0
  /\ executed = 0
  /\ call = NoCall
  /\ result = NoResult
  /\ storeOp = NoOp
  /\ storeRules = StoredRules(AuditRules)
  /\ groupItems = StoredItems(AuditRules)
  /\ nextItemId = 3
  /\ prompt = <<>>
  /\ toolCalls = <<>>

\* the calls followed in the pair: every tool, resolved by the matched rule
\* and by name, and one call that breaks its schema
PairCallsOf(t) ==
  CASE t = "edit_rule" ->
         {[tool |-> t, ruleName |-> n, condition |-> 1] :
            n \in {None, Some("Receipt")}}
    [] t = "remove_from_group" ->
         {[tool |-> t, type |-> ty, value |-> "Invoice"] :
            ty \in {"subject", "to"}}
    [] OTHER -> LoggedCallsOf(t)

\* Decide, for an invocation of the pair
DecidePair ==
  /\ pc = "Deliberating"
  /\ steps < maxSteps
  /\ steps < MaxPairSteps
  /\ \E t \in tools : \E c \in PairCallsOf(t) : Selects(c)
  /\ steps' = steps + 1
  /\ result' = NoResult
  /\ storeOp' = NoOp
  /\ UNCHANGED <<session, peer, tools, executed, store, prompt, toolCalls>>

\* variant: rules, matchedRule and categories are kept in one place for
\* all invocations, so the resumed invocation reads what the last one left
ResumedShared(own, last) ==
  [own EXCEPT !.rules = last.rules, !.matchedRule = last.matchedRule,
              !.categories = last.categories]

\* the locals the resumed invocation runs with: its own, as it left them
Resumed(own, last) == own

\* the running invocation is suspended at an await and the other one, if
\* it has not ended, is resumed; nothing is waited for
Switch ==
  /\ other # NoSession
  /\ other.pc \notin {"Done", "Failed"}
  /\ LET next == Resumed(other, Locals)
     IN  /\ rules' = next.rules
         /\ matchedRule' = next.matchedRule
         /\ categories' = next.categories
         /\ tools' = next.tools
         /\ pc' = next.pc
         /\ steps' = next.steps
         /\ executed' = next.executed
         /\ call' = next.call
         /\ result' = next.result
         /\ storeOp' = next.storeOp
         /\ prompt' = next.prompt
  /\ other' = Locals
  /\ sid' = 3 - sid
  /\ UNCHANGED <<store, inputs, toolCalls>>

NextPair ==
  \/ Switch
  \/ Build
  \/ DecidePair
  \/ TransportFailure
  \/ RejectInvalid
  \/ edit_rule
  \/ create_rule
  \/ change_sender_category
  \/ add_to_group
  \/ remove_from_group

SpecPair == InitPair /\ [][NextPair]_vars

----------------------------------------------------------------------------
(* Properties *)

\* an edit_rule call is about to execute
EditRuleRuns == pc = "Executing" /\ call.tool = "edit_rule"

\* the rules of the store other than id are what they were
OtherRulesUnchanged(id) ==
  /\ DOMAIN storeRules' = DOMAIN storeRules
  /\ \A i \in DOMAIN storeRules \ {id} : storeRules'[i] = storeRules[i]

NamedRules(name) == {r \in Range(rules) : r.name = name}

\* C1: edit_rule with ruleName unset and a non-null matched rule issues its
\* store update for the matched rule's id and changes no other rule, at any
\* point of the session
C1_EditTargetsMatchedRule ==
  [][(EditRuleRuns /\ call.ruleName = None /\ matchedRule # None) =>
       /\ result' = Success
       /\ storeOp' = [op |-> "updateRule", id |-> matchedRule[1].id]
       /\ storeRules'[matchedRule[1].id].condition = call.condition
       /\ OtherRulesUnchanged(matchedRule[1].id)
       /\ groupItems' = groupItems]_vars

\* an edit_rule without ruleName has updated the matched rule, which is not
\* the first rule of the set, after earlier tool calls
C1_Witness ==
  /\ call.tool = "edit_rule" /\ call.ruleName = None
  /\ Len(rules) = 2 /\ matchedRule = Some(rules[2])
  /\ steps > 1
  /\ result = Success
  /\ storeOp = [op |-> "updateRule", id |-> 2]
  /\ storeRules[2].condition = call.condition

\* an unresolved edit_rule returns an error and writes nothing
EditRuleFails ==
  /\ IsError(result')
  /\ storeOp' = NoOp
  /\ UNCHANGED store

\* C2 as stated: edit_rule returns an error and writes nothing when ruleName
\* is given and names no rule of the set, and when ruleName is not given and
\* the matched rule is null
C2_UnresolvedEditFails ==
  [][(EditRuleRuns /\
      \/ call.ruleName # None /\ NamedRules(call.ruleName[1]) = {}
      \/ call.ruleName = None /\ matchedRule = None)
     => EditRuleFails]_vars

\* C2 amended: edit_rule returns an error and writes nothing when ruleName is
\* a non-empty string that names no rule of the set, and when ruleName is
\* unset or empty and the matched rule is null; an empty ruleName counts as
\* unset and falls back to the matched rule
C2_UnresolvedEditFailsAmended ==
  [][(EditRuleRuns /\
      \/ /\ call.ruleName # None /\ call.ruleName[1] # ""
         /\ NamedRules(call.ruleName[1]) = {}
      \/ /\ call.ruleName = None \/ call.ruleName = Some("")
         /\ matchedRule = None)
     => EditRuleFails]_vars

\* an edit_rule naming an unknown rule has failed although a rule matched
C2_Witness ==
  /\ call.tool = "edit_rule"
  /\ call.ruleName = Some("Newsletter")
  /\ NamedRules("Newsletter") = {}
  /\ matchedRule # None
  /\ result = Error("Rule not found")
  /\ storeOp = NoOp

\* C3: a successful edit_rule replaces the target's condition and leaves the
\* name and the action list the store held immediately before the call
C3_EditKeepsNameAndActions ==
  [][(EditRuleRuns /\ result' = Success) =>
       /\ storeOp'.op = "updateRule"
       /\ storeOp'.id \in DOMAIN storeRules
       /\ storeRules'[storeOp'.id].condition = call.condition
       /\ storeRules'[storeOp'.id].name = storeRules[storeOp'.id].name
       /\ storeRules'[storeOp'.id].actions = storeRules[storeOp'.id].actions]_vars

\* a second successful edit_rule of a rule with actions, by name
C3_Witness ==
  /\ call.tool = "edit_rule" /\ call.ruleName = Some("Newsletter")
  /\ result = Success
  /\ steps > 1
  /\ storeOp = [op |-> "updateRule", id |-> 2]
  /\ storeRules[2].name = "Newsletter"
  /\ storeRules[2].actions = <<"ARCHIVE", "LABEL">>
  /\ storeRules[2].condition # 0

\* the persisted type of a logical item type
Persisted(type) == IF type = "from" THEN "FROM" ELSE "SUBJECT"

\* the group of the session's matched rule
MatchedGroupId == matchedRule[1].group[1].id

\* the store's group g holds an item with this type and value
Present(g, type, value) ==
  \E i \in 1..Len(groupItems[g]) :
    groupItems[g][i].type = type /\ groupItems[g][i].value = value

\* C4: remove_from_group deletes only when an item of the matched rule's
\* group matches the requested type and value; a call whose (type, value) is
\* not in the group returns "Group item not found" and leaves the item list
\* unchanged, also after earlier add_to_group and remove_from_group calls
C4_RemoveIsExactMatch ==
  [][(pc = "Executing" /\ call.tool = "remove_from_group" /\ ValidArgs(call)) =>
       /\ groupItems' # groupItems =>
            Present(MatchedGroupId, Persisted(call.type), call.value)
       /\ ~Present(MatchedGroupId, Persisted(call.type), call.value) =>
            /\ result' = Error("Group item not found")
            /\ groupItems' = groupItems]_vars

\* C5: once reply is selected the session is over: the selection leads to
\* Done, and no step of any kind follows it
C5_ReplyEndsSession ==
  [][/\ call'.tool = "reply" => pc' = "Done"
     /\ call.tool = "reply" => UNCHANGED vars]_vars

\* reply was selected with steps left in the budget, after a tool ran
C5_Witness ==
  /\ call.tool = "reply"
  /\ pc = "Done"
  /\ executed > 0
  /\ steps < 5

\* C6: at most five tool calls execute in a session, one per step at most,
\* failed ones included, and after the fifth step the session is over
C6_StepBudget ==
  /\ steps <= 5
  /\ executed <= steps
  /\ (steps = 5 /\ pc # "Executing") => pc = "Done"
  /\ pc = "Deliberating" => steps < 5

\* five tool calls ran, the last one failed, and the session stopped without
\* a reply
C6_Witness ==
  /\ executed = 5
  /\ pc = "Done"
  /\ call.tool # "reply"
  /\ IsError(result)

\* the domain-level failures of the call about to run, as the tool sees them
UnknownRule == call.tool = "edit_rule" /\ EditRuleTarget(call.ruleName) = None
UnknownGroup ==
  /\ call.tool = "add_to_group"
  /\ \A r \in Range(rules) : r.group = None \/ Some(r.group[1].name) # call.groupName
InvalidItemType ==
  /\ call.tool \in {"add_to_group", "remove_from_group"}
  /\ call.type \notin {"from", "subject"}
MissingGroupItem ==
  /\ call.tool = "remove_from_group"
  /\ call.type \in {"from", "subject"}
  /\ \A item \in Range(matchedRule[1].group[1].items) :
       item.type # Persisted(call.type) \/ item.value # call.value

\* C7: an unknown rule, an unknown group, an invalid item type and a missing
\* group item each give an error result and no write, and leave the session
\* running: the decision-maker gets another step while the budget allows
C7_DomainFailureIsAResult ==
  [][(pc = "Executing" /\
      (UnknownRule \/ UnknownGroup \/ InvalidItemType \/ MissingGroupItem)) =>
       /\ IsError(result')
       /\ UNCHANGED store
       /\ pc' # "Failed"
       /\ steps < 5 => pc' = "Deliberating"
       /\ steps = 5 => pc' = "Done"]_vars

\* after a "Rule not found" result the decision-maker chose another tool
C7_Witness ==
  /\ pc = "Deliberating"
  /\ call.tool = "edit_rule"
  /\ result = Error("Rule not found")
  /\ steps < 5
  /\ ENABLED Decide

\* the groups of the session's rule set that carry this name
GroupsNamed(groupName) ==
  {r.group[1].id : r \in {x \in Range(rules) :
      x.group # None /\ Some(x.group[1].name) = groupName}}

\* items is old with one item of this type and value appended
AppendedOne(items, old, type, value) ==
  /\ Len(items) = Len(old) + 1
  /\ SubSeq(items, 1, Len(old)) = old
  /\ items[Len(items)].type = type
  /\ items[Len(items)].value = value

\* C8: add_to_group with a name no group of the rule set has returns an
\* error and appends nothing; otherwise it appends one item, FROM for from
\* and SUBJECT for subject, with the given value, to the group of that name
\* and changes no other group
C8_AddResolvesGroupByName ==
  [][(pc = "Executing" /\ call.tool = "add_to_group" /\ ValidArgs(call)) =>
       IF GroupsNamed(call.groupName) = {}
         THEN /\ IsError(result')
              /\ groupItems' = groupItems
         ELSE /\ result' = Success
              /\ \E g \in GroupsNamed(call.groupName) :
                   /\ AppendedOne(groupItems'[g], groupItems[g],
                                  Persisted(call.type), call.value)
                   /\ \A h \in GroupIds \ {g} : groupItems'[h] = groupItems[h]]_vars

\* a subject item was appended to "Newsletters" while "Receipts" is also a
\* group of the session
C8_Witness ==
  /\ call = [tool |-> "add_to_group", groupName |-> Some("Newsletters"),
             type |-> "subject", value |-> "thanks"]
  /\ result = Success
  /\ GroupsNamed(Some("Receipts")) # {}
  /\ Len(groupItems[2]) = 2
  /\ groupItems[2][2].type = "SUBJECT"
  /\ groupItems[2][2].value = "thanks"

\* C9: a successful edit_rule leaves the rule's group and category filters
\* as they were
C9_EditKeepsLinkage ==
  [][(EditRuleRuns /\ result' = Success) =>
       /\ storeRules'[storeOp'.id].groupId = storeRules[storeOp'.id].groupId
       /\ storeRules'[storeOp'.id].categoryIds
            = storeRules[storeOp'.id].categoryIds]_vars

\* a rule with a group and a category filter was edited and still has both
C9_Witness ==
  /\ call.tool = "edit_rule"
  /\ result = Success
  /\ storeOp = [op |-> "updateRule", id |-> 2]
  /\ storeRules[2].condition # 0
  /\ storeRules[2].groupId = Some(2)
  /\ storeRules[2].categoryIds = {1}

\* C10: the four fixed tools are always offered, change_sender_category
\* exactly when the session has a category list, remove_from_group exactly
\* when the matched rule has a group, and only offered tools are selected
C10_ToolSetFollowsSession ==
  pc # "Building" =>
    /\ {"edit_rule", "create_rule", "add_to_group", "reply"} \subseteq tools
    /\ "change_sender_category" \in tools <=> categories # None
    /\ "remove_from_group" \in tools <=>
         (matchedRule # None /\ matchedRule[1].group # None)
    /\ tools \subseteq {"edit_rule", "create_rule", "add_to_group", "reply",
                        "change_sender_category", "remove_from_group"}
    /\ call.tool # "none" => call.tool \in tools

\* a session with a matched rule without a group and without categories ran
\* a tool: neither optional tool is offered
C10_Witness ==
  /\ matchedRule # None /\ matchedRule[1].group = None
  /\ categories = None
  /\ tools = {"edit_rule", "create_rule", "add_to_group", "reply"}
  /\ executed > 0

\* C11: change_sender_category returns success for every sender and every
\* allowed category and leaves every rule, group and group item as it was
C11_ChangeCategoryWritesNothing ==
  [][(pc = "Executing" /\ call.tool = "change_sender_category"
      /\ call.category \in Range(categories[1]) \cup {"none"}) =>
       /\ result' = Success
       /\ storeOp' = NoOp
       /\ UNCHANGED store]_vars

\* change_sender_category ran with a known category on a store that earlier
\* tool calls of the session had written to
C11_Witness ==
  /\ call = [tool |-> "change_sender_category", sender |-> "news@",
             category |-> "News"]
  /\ result = Success
  /\ storeOp = NoOp
  /\ Len(rules) = 2
  /\ storeRules[2].categoryIds = {1}
  /\ storeRules[1].condition # 0

\* C13: a failed decision-maker call fails the session at once: no tool runs
\* for it, the writes of earlier steps stay as they are, and nothing follows
C13_TransportFailureFailsSession ==
  [][/\ (pc = "Deliberating" /\ call' = NoCall) =>
          /\ pc' = "Failed"
          /\ executed' = executed
          /\ steps' = steps
          /\ UNCHANGED store
     /\ pc = "Failed" => UNCHANGED vars]_vars

\* the session failed after an edit_rule and an add_to_group had been
\* applied, and both writes are still in the store
C13_Witness ==
  /\ pc = "Failed"
  /\ executed = 2
  /\ Len(rules) = 2
  /\ storeRules[1].condition # 0
  /\ Len(groupItems[2]) = 2

\* the arguments of the chosen call break the tool's input schema
BreaksSchema ==
  \/ /\ call.tool \in {"add_to_group", "remove_from_group"}
     /\ call.type \notin {"from", "subject"}
  \/ /\ call.tool = "change_sender_category"
     /\ call.category \notin Range(categories[1]) \cup {"none"}

\* C14: a call whose arguments break the tool's schema is rejected before
\* execute: no execute step runs and no store write is issued
C14_InvalidArgsNeverExecute ==
  [][(pc = "Executing" /\ BreaksSchema) =>
       /\ executed' = executed
       /\ storeOp' = NoOp
       /\ IsError(result')
       /\ UNCHANGED store]_vars

\* add_to_group with type "to" for an existing group was rejected
C14_Witness ==
  /\ call = [tool |-> "add_to_group", groupName |-> Some("Receipts"),
             type |-> "to", value |-> "thanks"]
  /\ GroupsNamed(Some("Receipts")) # {}
  /\ IsError(result)
  /\ executed = 0
  /\ steps = 1
  /\ Len(groupItems[1]) = 0

\* C15: the rules the session started with are all still in the store and
\* the groups are the groups it started with
C15_RulesAndGroupsStay ==
  /\ {r.id : r \in Range(rules)} \subseteq DOMAIN storeRules
  /\ DOMAIN groupItems = GroupIds

\* a rule was created and the last item of the matched rule's group removed:
\* the emptied group and both original rules are still there
C15_Witness ==
  /\ Len(rules) = 2
  /\ DOMAIN storeRules = {1, 2, 3}
  /\ call.tool = "remove_from_group"
  /\ result = Success
  /\ groupItems[1] = <<>>

\* how often a token occurs in a serialized form
Count(x, token) == Cardinality({i \in 1..Len(x) : x[i] = token})

\* the first place of a token in a serialized form
IndexOf(x, token) == CHOOSE i \in 1..Len(x) : x[i] = token /\ \A j \in 1..(i - 1) : x[j] # token

\* what stands between <tag> and </tag>
Between(x, tag) ==
  SubSeq(x, IndexOf(x, Open(tag)) + 1, IndexOf(x, Close(tag)) - 1)

\* x holds seq as a contiguous part
Holds(x, seq) ==
  \E i \in 1..Len(x) : i + Len(seq) - 1 <= Len(x) /\ SubSeq(x, i, i + Len(seq) - 1) = seq

\* a prompt has been built for a matched rule
Serialized == pc # "Building" /\ matchedRule # None

\* the items of a group, each with its type and value, in order
ItemsInOrder(items) ==
  Flatten([i \in 1..Len(items) |->
    <<Open("item"), Open("type"), Text(items[i].type), Close("type"),
      Open("value"), Text(items[i].value), Close("value"), Close("item")>>])

\* C17: the serialized form of a rule with a group holds the group's name,
\* and in place of the item list the marker "No group items" when the group
\* has no items, every item's type and value in order when it has some
C17_GroupItemsOrMarker ==
  (Serialized /\ matchedRule[1].group # None) =>
    /\ Holds(prompt, <<Open("group"), Text(matchedRule[1].group[1].name),
                       Close("group")>>)
    /\ Count(prompt, Open("group_items")) = 1
    /\ Count(prompt, Close("group_items")) = 1
    /\ Between(prompt, "group_items") =
         IF Len(matchedRule[1].group[1].items) = 0
           THEN <<Text("No group items")>>
           ELSE ItemsInOrder(matchedRule[1].group[1].items)

\* a static field is set when it holds a non-empty string
IsSet(opt) == opt # None /\ opt[1] # ""

\* the element of a static field that is set, nothing for one that is not
SetField(tag, opt) ==
  IF IsSet(opt) THEN <<Open(tag), Text(opt[1]), Close(tag)>> ELSE <<>>

\* C18: the serialized form holds a static-conditions block exactly when one
\* of from, to, subject, body is set; then it holds one such block, with the
\* set fields and no other, and the conditional operator once, before the
\* block and not inside it
C18_StaticConditionsBlock ==
  Serialized =>
    LET r == matchedRule[1]
        any == IsSet(r.from) \/ IsSet(r.to) \/ IsSet(r.subject) \/ IsSet(r.body)
    IN  /\ Count(prompt, Open("static_conditions")) = (IF any THEN 1 ELSE 0)
        /\ Count(prompt, Close("static_conditions")) = (IF any THEN 1 ELSE 0)
        /\ Count(prompt, Open("conditional_operator")) = 1
        /\ Holds(prompt, <<Open("conditional_operator"),
                           Text(r.conditionalOperator),
                           Close("conditional_operator")>>)
        /\ any =>
             /\ Between(prompt, "static_conditions") =
                  SetField("from", r.from) \o SetField("to", r.to)
                    \o SetField("subject", r.subject) \o SetField("body", r.body)
             /\ IndexOf(prompt, Close("conditional_operator"))
                  < IndexOf(prompt, Open("static_conditions"))

\* a rule with subject and body set, from empty and to absent was serialized
\* under OR: one block with the two set fields
C18_Witness ==
  /\ Serialized
  /\ matchedRule[1].conditionalOperator = "OR"
  /\ matchedRule[1].from = Some("")
  /\ matchedRule[1].to = None
  /\ matchedRule[1].subject = Some("Invoice")
  /\ matchedRule[1].body = Some("total")
  /\ Between(prompt, "static_conditions")
       = <<Open("subject"), Text("Invoice"), Close("subject"),
           Open("body"), Text("total"), Close("body")>>

\* the step budget is used up and the last step was not the terminal tool
BudgetExhausted ==
  /\ pc \notin {"Building", "Deliberating", "Executing"}
  /\ steps = 5
  /\ call.tool # "reply"

\* C12: when the step budget is exhausted without a terminal reply the
\* session ends without an error, and the log returned to the caller holds
\* every tool call of the session in the order made: each step appends the
\* call it chose, and at the end the log has one entry per step
C12_BudgetExhaustedReturnsLog ==
  [][/\ steps' = steps + 1 => ToolCallLog' = Append(ToolCallLog, call')
     /\ BudgetExhausted' =>
          /\ pc' = "Done"
          /\ result' # Thrown
          /\ Len(ToolCallLog') = 5
          /\ ToolCallLog'[5] = call']_vars

\* five steps without a reply ended a session: an edit first, a removal
\* last, and the log holds them in that order
C12_Witness ==
  /\ BudgetExhausted
  /\ pc = "Done"
  /\ Len(ToolCallLog) = 5
  /\ ToolCallLog[1].tool = "edit_rule"
  /\ ToolCallLog[2].tool = "create_rule"
  /\ ToolCallLog[5].tool = "remove_from_group"

Terminal == pc \in {"Done", "Failed"}

\* C19: every session terminates.  It starts in Building, leaves it and
\* never comes back; it eventually reaches Done or Failed and stays there;
\* it is Done only by the terminal tool or with the 5 steps used, and
\* Failed only by a failure of the decision-maker call
C19_SessionTerminates ==
  /\ pc = "Building"
  /\ [][pc' # "Building" /\ ~Terminal]_vars
  /\ [](pc = "Building" => steps = 0 /\ executed = 0 /\ tools = {})
  /\ [](pc = "Done" => call.tool = "reply" \/ steps = 5)
  /\ [](pc = "Failed" => call = NoCall /\ steps < 5)
  /\ <>Terminal

\* a session ended by the budget: five steps, each executed, the last an
\* add_to_group
C19_Witness ==
  /\ pc = "Done"
  /\ steps = 5
  /\ executed = 5
  /\ call.tool = "add_to_group"

\* the arguments the running invocation was called with
Own == inputs[sid]

\* what the running call resolves to when only the invocation's own
\* arguments are read: the rule of edit_rule, the group of add_to_group,
\* the group item of remove_from_group
OwnRule ==
  IF Truthy(call.ruleName)
    THEN Find(Own.rules, LAMBDA r : r.name = call.ruleName[1])
    ELSE Own.matchedRule

OwnGroup ==
  Find(Own.rules, LAMBDA r : r.group # None
                             /\ Some(r.group[1].name) = call.groupName)

OwnItem ==
  IF Own.matchedRule = None \/ Own.matchedRule[1].group = None THEN None
  ELSE Find(Own.matchedRule[1].group[1].items,
            LAMBDA i : i.type = (IF call.type = "from" THEN "FROM"
                                 ELSE "SUBJECT")
                       /\ i.value = call.value)

\* the target the step resolved, or the failure to resolve one
Resolved(target, op, id) ==
  IF target = None
    THEN IsError(result') /\ UNCHANGED store
    ELSE result' = Success /\ storeOp' = [op |-> op, id |-> id]

\* C20: in any interleaving of two sessions, the running session's rules,
\* matched rule, categories and tool set are those of its own arguments;
\* the rule, group or group item a tool call resolves is the one its own
\* arguments give, whatever the other session holds; a step of one session
\* leaves the other session's locals as they are, and a switch between the
\* sessions leaves the store as it is
C20_SessionsShareOnlyTheStore ==
  [][/\ <<rules', matchedRule', categories'>>
          = <<inputs'[sid'].rules, inputs'[sid'].matchedRule,
              inputs'[sid'].categories>>
     /\ sid' # sid => UNCHANGED store /\ other' = Locals
     /\ sid' = sid =>
          /\ other' = other
          /\ (pc = "Executing" /\ ValidArgs(call)) =>
               CASE call.tool = "edit_rule" ->
                      Resolved(OwnRule, "updateRule",
                               IF OwnRule = None THEN 0 ELSE OwnRule[1].id)
                 [] call.tool = "add_to_group" ->
                      Resolved(OwnGroup, "addGroupItem",
                               IF OwnGroup = None THEN 0
                               ELSE OwnGroup[1].group[1].id)
                 [] call.tool = "remove_from_group" ->
                      Resolved(OwnItem, "deleteGroupItem",
                               IF OwnItem = None THEN 0 ELSE OwnItem[1].id)
                 [] OTHER -> TRUE]_vars

\* two sessions called with different rule sets and matched rules are both
\* under way: the second has edited its matched rule, the first, suspended,
\* has edited its own, and neither waited for the other to end
C20_Witness ==
  /\ inputs # <<>>
  /\ inputs[1] # inputs[2]
  /\ sid = 2
  /\ storeOp = [op |-> "updateRule", id |-> 2]
  /\ other # NoSession
  /\ other.storeOp = [op |-> "updateRule", id |-> 1]
  /\ other.pc = "Deliberating"

\* the rules of the store that the session's rule set does not hold: the
\* rules the session itself created
Created == DOMAIN storeRules \ {r.id : r \in Range(rules)}

\* an edit_rule call is about to execute under the name of a created rule
EditsCreatedName ==
  /\ EditRuleRuns
  /\ ValidArgs(call)
  /\ Truthy(call.ruleName)
  /\ \E i \in Created : storeRules[i].name = call.ruleName[1]

AddWithoutGroupName ==
  /\ pc = "Executing"
  /\ call.tool = "add_to_group"
  /\ ValidArgs(call)
  /\ call.groupName = None

\* C22: add_to_group called without groupName returns "Group not found" and
\* appends nothing, whatever the session's rule set and matched rule: every
\* group keeps its items and no store write is issued
C22_AddWithoutGroupNameFails ==
  [][AddWithoutGroupName =>
       /\ result' = Error("Group not found")
       /\ storeOp' = NoOp
       /\ groupItems' = groupItems
       /\ UNCHANGED store]_vars

\* add_to_group without groupName has failed in a session whose matched
\* rule has a group and whose rule set holds a rule without one
C22_Witness ==
  /\ call.tool = "add_to_group"
  /\ call.groupName = None
  /\ result = Error("Group not found")
  /\ matchedRule # None
  /\ matchedRule[1].group # None
  /\ \E r \in Range(rules) : r.group = None

\* the ids of the items the matched rule's group held at session start
StartItemIds ==
  IF matchedRule = None THEN {}
  ELSE IF matchedRule[1].group = None THEN {}
  ELSE {item.id : item \in Range(matchedRule[1].group[1].items)}

\* the groups other than the matched rule's
OtherGroups ==
  IF matchedRule = None THEN GroupIds
  ELSE IF matchedRule[1].group = None THEN GroupIds
  ELSE GroupIds \ {MatchedGroupId}

\* the ids of the items that a step takes out of group g
RemovedIds(g) ==
  {groupItems[g][i].id : i \in 1..Len(groupItems[g])}
    \ {groupItems'[g][i].id : i \in 1..Len(groupItems'[g])}

\* C23: no step of a session takes an item out of a group other than the
\* matched rule's, and what a step takes out was in the matched rule's group
\* at session start; a remove_from_group call issues no store write or one
\* delete, for an id of that start set, and takes out nothing but that id
C23_RemoveOnlyFromMatchedGroup ==
  [][/\ \A g \in OtherGroups : RemovedIds(g) = {}
     /\ \A g \in GroupIds : RemovedIds(g) \subseteq StartItemIds
     /\ (pc = "Executing" /\ call.tool = "remove_from_group") =>
          /\ storeRules' = storeRules
          /\ \/ storeOp' = NoOp /\ groupItems' = groupItems
             \/ /\ storeOp'.op = "deleteGroupItem"
                /\ storeOp'.id \in StartItemIds
                /\ \A g \in GroupIds : RemovedIds(g) \subseteq {storeOp'.id}]_vars

\* an item with the removed value was added to the other group, and the
\* removal took the matched group's start item only: the other group holds
\* its two items
C23_Witness ==
  /\ call.tool = "remove_from_group"
  /\ result = Success
  /\ storeOp = [op |-> "deleteGroupItem", id |-> 1]
  /\ matchedRule # None
  /\ matchedRule[1].id = 1
  /\ groupItems[1] = <<>>
  /\ Len(groupItems[2]) = 2

====
